---- MODULE Spec2Model ----
(***************************************************************************)
(* Model of the parthia combat calculator: the hit-rate systems of rng.rs, *)
(* the per-game dispatch of fegame.rs and the outcome engine of            *)
(* simple_calc.rs.                                                         *)
(*                                                                         *)
(* Probabilities (f64 in the source) are carried as exact decimals, so     *)
(* that statements "in exact arithmetic" can be decided.  u32 values keep  *)
(* their 32-bit width as two 16-bit halves.                                *)
(***************************************************************************)
EXTENDS Integers, Sequences, FiniteSets, TLC

VARIABLES
    \* --- rng.rs: a caller of RNSystem::true_hit
    rn,             \* the RNSystem the calls are made on
    hit_calls,      \* the last two calls, oldest first: [listed_hit, result]
    \* --- fegame.rs / simple_calc.rs
    game,           \* FEGame
    overflow_checks,\* build flavour: TRUE = overflow panics, FALSE = wraps
    crit_atk, crit_def,                \* arguments of FEGame::crit_damage
    crit_result,    \* [status: "none" | "ok" | "panic", value]
    atk, def, atk_hp, def_hp, speed,   \* arguments of possible_outcomes
    pc,             \* position inside possible_outcomes
    outcomes,       \* the Vec<Outcome> currently held
    \* --- Outcome::add_into call
    add_self, add_list,
    add_result      \* <<>> before the call, <<returned list>> after it

vars == <<rn, hit_calls, game, overflow_checks,
          crit_atk, crit_def, crit_result, atk, def, atk_hp, def_hp, speed,
          pc, outcomes, add_self, add_list, add_result>>

None == "none"

(***************************************************************************)
(* Exact decimals.  A value is [n |-> limbs, e |-> k]: the natural number  *)
(* with little-endian base-Limb digits n, divided by Limb^k.  Canonical    *)
(* form: no high zero limb, and e = 0 or n[1] # 0; zero is <<>> with e 0.  *)
(***************************************************************************)
Limb == 10000

Max(a, b) == IF a >= b THEN a ELSE b

RestOf(s) == IF s = <<>> THEN <<>> ELSE Tail(s)
FirstOf(s) == IF s = <<>> THEN 0 ELSE s[1]

RECURSIVE NTrim(_)
NTrim(s) ==
    IF s = <<>> THEN s
    ELSE IF s[Len(s)] = 0 THEN NTrim(SubSeq(s, 1, Len(s) - 1)) ELSE s

RECURSIVE NOfInt(_)
NOfInt(k) == IF k = 0 THEN <<>> ELSE <<k % Limb>> \o NOfInt(k \div Limb)

RECURSIVE NAdd(_, _, _)
NAdd(a, b, c) ==
    IF a = <<>> /\ b = <<>> THEN (IF c = 0 THEN <<>> ELSE <<c>>)
    ELSE LET s == FirstOf(a) + FirstOf(b) + c
         IN  <<s % Limb>> \o NAdd(RestOf(a), RestOf(b), s \div Limb)

\* a - b - br for a >= b; the borrow out of the top limb is dropped
RECURSIVE NSub(_, _, _)
NSub(a, b, br) ==
    IF a = <<>> THEN <<>>
    ELSE LET d == a[1] - FirstOf(b) - br
         IN  <<d % Limb>> \o NSub(Tail(a), RestOf(b), IF d < 0 THEN 1 ELSE 0)

RECURSIVE NScale(_, _, _)
NScale(a, k, c) ==
    IF a = <<>> THEN (IF c = 0 THEN <<>> ELSE <<c>>)
    ELSE LET p == a[1] * k + c
         IN  <<p % Limb>> \o NScale(Tail(a), k, p \div Limb)

RECURSIVE NMul(_, _)
NMul(a, b) ==
    IF a = <<>> \/ b = <<>> THEN <<>>
    ELSE NAdd(NScale(b, a[1], 0), <<0>> \o NMul(Tail(a), b), 0)

\* -1, 0, 1 as a < b, a = b, a > b (both without high zero limbs)
RECURSIVE NCmp(_, _)
NCmp(a, b) ==
    IF Len(a) # Len(b) THEN (IF Len(a) < Len(b) THEN -1 ELSE 1)
    ELSE IF a = <<>> THEN 0
    ELSE LET n == Len(a)
         IN  IF a[n] # b[n] THEN (IF a[n] < b[n] THEN -1 ELSE 1)
             ELSE NCmp(SubSeq(a, 1, n - 1), SubSeq(b, 1, n - 1))

RECURSIVE DNorm(_, _)
DNorm(n, e) ==
    LET t == NTrim(n)
    IN  IF t = <<>> THEN [n |-> <<>>, e |-> 0]
        ELSE IF e > 0 /\ t[1] = 0 THEN DNorm(Tail(t), e - 1)
        ELSE [n |-> t, e |-> e]

Pad(n, k) == [i \in 1..k |-> 0] \o n

Zero == [n |-> <<>>, e |-> 0]
One == [n |-> <<1>>, e |-> 0]

DInt(k) == DNorm(NOfInt(k), 0)
DAdd(x, y) ==
    LET e == Max(x.e, y.e)
    IN  DNorm(NAdd(Pad(x.n, e - x.e), Pad(y.n, e - y.e), 0), e)
DSub(x, y) ==
    LET e == Max(x.e, y.e)
    IN  DNorm(NSub(Pad(x.n, e - x.e), Pad(y.n, e - y.e), 0), e)
DMul(x, y) == DNorm(NMul(x.n, y.n), x.e + y.e)
\* x / 100.0 and x / (100.0 * 100.0), exactly
DDiv100(x) == DMul(x, [n |-> <<100>>, e |-> 1])
DDiv10000(x) == DMul(x, [n |-> <<1>>, e |-> 1])
DLe(x, y) ==
    LET e == Max(x.e, y.e)
    IN  NCmp(NTrim(Pad(x.n, e - x.e)), NTrim(Pad(y.n, e - y.e))) <= 0

(***************************************************************************)
(* rng.rs                                                                  *)
(***************************************************************************)
RNSystem == {"OneRN", "FatesRN", "TwoRN"}

\* the test with <= for <
TwoRNHitsInclusive(i, j, lh) == i + j <= lh * 2

\* the test of the innermost loop body
TwoRNHits(i, j, lh) == i + j < lh * 2

\* for j in 0..100 { if i + j < listed_hit * 2 { num_hits += 1 } }:
\* what one run of the inner loop adds to num_hits
TwoRNInner(i, lh) == Cardinality({j \in 0..99 : TwoRNHits(i, j, lh)})

\* for i in 0..100 { .. }: what the iterations i, i + 1, .. 99 add
RECURSIVE TwoRNOuter(_, _)
TwoRNOuter(i, lh) ==
    IF i >= 100 THEN 0
    ELSE TwoRNInner(i, lh) + TwoRNOuter(i + 1, lh)

\* num_hits at the end of the loops, for each listed hit (the function is pure)
TwoRNNumHits == [lh \in 0..100 |-> TwoRNOuter(0, lh)]

\* (lh + (4/30) * lh * sin(radians((0.02 * lh - 1) * 180))) / 100 for
\* lh = 50 .. 100, rounded to 8 decimals (units of 10^-8)
FatesFormula ==
    <<50000000, 51426976, 52868977, 54324161, 55790567, 57266125, 58748663,
      60235923, 61725562, 63215171, 64702282, 66184382, 67658923, 69123336,
      70575046, 72011481, 73430086, 74828340, 76203765, 77553944, 78876527,
      80169254, 81429958, 82656583, 83847197, 85000000, 86113338, 87185711,
      88215787, 89202409, 90144603, 91041586, 91892776, 92697794, 93456473,
      94168859, 94835219, 95456036, 96032019, 96564098, 97053423, 97501365,
      97909512, 98279663, 98613828, 98914215, 99183231, 99423465, 99637688,
      99828835, 100000000>>

\* true_hit with TwoRN dividing by 100.0 instead of 100.0 * 100.0
true_hit_tworn_div_100(system, lh) ==
    CASE system = "OneRN" -> DDiv100(DInt(lh))
      [] system = "TwoRN" -> DDiv100(DInt(TwoRNNumHits[lh]))
      [] system = "FatesRN" ->
            IF lh < 50 THEN DDiv100(DInt(lh))
            ELSE DNorm(NOfInt(FatesFormula[lh - 49]), 2)

\* RNSystem::true_hit
true_hit(system, lh) ==
    CASE system = "OneRN" -> DDiv100(DInt(lh))
      [] system = "TwoRN" -> DDiv10000(DInt(TwoRNNumHits[lh]))
      [] system = "FatesRN" ->
            IF lh < 50 THEN DDiv100(DInt(lh))
            ELSE DNorm(NOfInt(FatesFormula[lh - 49]), 2)

(***************************************************************************)
(* u32: <<high half, low half>>, each in 0 .. Half - 1                     *)
(***************************************************************************)
Half == 65536

U32(k) == <<k \div Half, k % Half>>
U32Zero == <<0, 0>>
U32Lt(a, b) == a[1] < b[1] \/ (a[1] = b[1] /\ a[2] < b[2])

\* a subtraction that wraps instead of saturating
wrapping_sub(a, b) ==
    LET lo == a[2] - b[2]
        hi == a[1] - b[1] - (IF lo < 0 THEN 1 ELSE 0)
    IN  <<hi % Half, lo % Half>>

\* u32::saturating_sub
saturating_sub(a, b) ==
    IF U32Lt(a, b) THEN U32Zero
    ELSE LET lo == a[2] - b[2]
         IN  <<a[1] - b[1] - (IF lo < 0 THEN 1 ELSE 0), lo % Half>>

\* a * k and a - b on u32: the wrapped value, and whether it overflowed
OverflowingMul(a, k) ==
    LET lo == a[2] * k
        hi == a[1] * k + (lo \div Half)
    IN  [value |-> <<hi % Half, lo % Half>>, overflow |-> hi >= Half]
OverflowingSub(a, b) ==
    LET lo == a[2] - b[2]
        hi == a[1] - b[1] - (IF lo < 0 THEN 1 ELSE 0)
    IN  [value |-> <<hi % Half, lo % Half>>, overflow |-> U32Lt(a, b)]

\* the result of a u32 computation: a value, or a panic
Ok(v) == [status |-> "ok", value |-> v]
Panic == [status |-> "panic", value |-> U32Zero]
NoResult == [status |-> "none", value |-> U32Zero]

(***************************************************************************)
(* fegame.rs                                                               *)
(***************************************************************************)
FEGame == {"FE1", "FE2", "FE3", "FE4", "FE5", "FE6", "FE7", "FE8", "FE9",
           "FE10", "FE11", "FE12", "FE13", "FE14", "FE15", "SoV"}

GameRNSystem(g) ==
    IF g \in {"FE1", "FE2", "FE3", "FE4", "FE5"} THEN "OneRN"
    ELSE IF g \in {"FE14", "SoV"} THEN "FatesRN"
    ELSE "TwoRN"

game_true_hit(g, lh) == true_hit(GameRNSystem(g), lh)

\* FEGame::crit_damage; checks = the build panics on overflow, else it wraps
crit_damage(g, a, d, checks) ==
    IF g \in {"FE4", "FE5"}
    THEN LET m == OverflowingMul(a, 2)
             s == OverflowingSub(m.value, d)
         IN  IF checks /\ (m.overflow \/ s.overflow) THEN Panic ELSE Ok(s.value)
    ELSE LET s == OverflowingSub(a, d)
             m == OverflowingMul(s.value, 3)
         IN  IF checks /\ (s.overflow \/ m.overflow) THEN Panic ELSE Ok(m.value)

(***************************************************************************)
(* simple_calc.rs                                                          *)
(***************************************************************************)
SpeedDiff == {"Even", "AtkDoubles", "DefDoubles"}

MkOutcome(p, a, d) == [prob |-> p, atk_hp |-> a, def_hp |-> d]

\* Outcome::switch
switch(o) == MkOutcome(o.prob, o.def_hp, o.atk_hp)
switch_all(os) == [i \in 1..Len(os) |-> switch(os[i])]

SameHp(a, b) == a.atk_hp = b.atk_hp /\ a.def_hp = b.def_hp

\* add_into without the has_added test: self is pushed in any case
add_into_always_pushes(self, os) ==
    Append([i \in 1..Len(os) |->
              IF SameHp(self, os[i])
              THEN MkOutcome(DAdd(self.prob, os[i].prob),
                             self.atk_hp, self.def_hp)
              ELSE os[i]], self)

\* Outcome::add_into
add_into(self, os) ==
    LET merged == [i \in 1..Len(os) |->
                     IF SameHp(self, os[i])
                     THEN MkOutcome(DAdd(self.prob, os[i].prob),
                                    self.atk_hp, self.def_hp)
                     ELSE os[i]]
        has_added == \E i \in 1..Len(os) : SameHp(self, os[i])
    IN  IF has_added THEN merged ELSE Append(merged, self)

\* collect without its filter
PossibleAlways(o) == TRUE

\* the filter of Outcome::collect
Possible(o) == o.prob # Zero

RECURSIVE CollectFold(_, _)
CollectFold(acc, rest) ==
    IF rest = <<>> THEN acc
    ELSE CollectFold(IF Possible(rest[1]) THEN add_into(rest[1], acc) ELSE acc,
                     Tail(rest))

\* Outcome::collect
collect(os) == CollectFold(<<>>, os)

\* the three pushes with prob_reg_hit = prob_hit (the crit share not taken out)
StrikeBranchesCritCountedTwice(self, g, state, dmg3) ==
    LET prob_hit == game_true_hit(g, self.hit)
        prob_miss == DSub(One, prob_hit)
        prob_crit == DDiv100(DMul(prob_hit, DInt(self.crit)))
    IN  << MkOutcome(DMul(state.prob, prob_miss), state.atk_hp, state.def_hp),
           MkOutcome(DMul(state.prob, prob_hit), state.atk_hp,
                     saturating_sub(state.def_hp, self.dmg)),
           MkOutcome(DMul(state.prob, prob_crit), state.atk_hp,
                     saturating_sub(state.def_hp, dmg3)) >>

\* the three pushes of after_single_strike for one live state; dmg3 = 3 * dmg
StrikeBranches(self, g, state, dmg3) ==
    LET prob_hit == game_true_hit(g, self.hit)
        prob_miss == DSub(One, prob_hit)
        prob_crit == DDiv100(DMul(prob_hit, DInt(self.crit)))
        prob_reg_hit == DSub(prob_hit, prob_crit)
    IN  << MkOutcome(DMul(state.prob, prob_miss), state.atk_hp, state.def_hp),
           MkOutcome(DMul(state.prob, prob_reg_hit), state.atk_hp,
                     saturating_sub(state.def_hp, self.dmg)),
           MkOutcome(DMul(state.prob, prob_crit), state.atk_hp,
                     saturating_sub(state.def_hp, dmg3)) >>

\* one iteration without the test for a dead attacker
StrikeOneDeadStrikes(self, g, state, dmg3) ==
    StrikeBranches(self, g, state, dmg3)

\* one iteration of the loop over states
StrikeOne(self, g, state, dmg3) ==
    IF state.atk_hp = U32Zero THEN <<state>>
    ELSE StrikeBranches(self, g, state, dmg3)

RECURSIVE StrikeLoop(_, _, _, _)
StrikeLoop(self, g, states, dmg3) ==
    IF states = <<>> THEN <<>>
    ELSE StrikeOne(self, g, states[1], dmg3)
             \o StrikeLoop(self, g, Tail(states), dmg3)

\* CombatStats::after_single_strike: the new list, or a panic when 3 * dmg
\* overflows in a build that checks (the product is only evaluated for a
\* state whose attacker is alive)
after_single_strike(self, g, states, checks) ==
    LET m == OverflowingMul(self.dmg, 3)
    IN  IF checks /\ m.overflow
           /\ \E i \in 1..Len(states) : states[i].atk_hp # U32Zero
        THEN [panic |-> TRUE, states |-> <<>>]
        ELSE [panic |-> FALSE,
              states |-> collect(StrikeLoop(self, g, states, m.value))]

(***************************************************************************)
(* Inputs                                                                  *)
(***************************************************************************)
MaxHp == 2
MaxListLen == 3

\* 3 * DmgWraps overflows u32 and wraps to 2
DmgWraps == <<21845, 21846>>
U32Max == <<Half - 1, Half - 1>>

\* preview-level rounds: one game per RN system, small HP and damage
HitValues == {0, 70, 100}
CritValues == {0, 50, 100}
DmgValues == {U32(1)}
HpValues == {U32(k) : k \in 1..MaxHp}
RoundGames == {"FE4", "FE7", "FE14"}

CombatStats ==
    [dmg : DmgValues, hit : HitValues, crit : CritValues, is_brave : BOOLEAN]

\* rounds at the edges of u32
WideDmg == {U32(5), DmgWraps, U32Max}
WideHp == {U32(8), U32Max}
WideStats ==
    [dmg : WideDmg, hit : {100}, crit : {0, 100}, is_brave : BOOLEAN]

CritArgs == {U32(0), U32(1), U32(2), U32(5), <<32768, 0>>, U32Max}

AddProbs == {Zero, DDiv100(DInt(25)), DDiv100(DInt(50))}
AddHps == {<<U32(1), U32(0)>>, <<U32(1), U32(1)>>, <<U32(0), U32(1)>>}
AddOutcomes == {MkOutcome(p, h[1], h[2]) : p \in AddProbs, h \in AddHps}
AddLists == UNION {[1..n -> AddOutcomes] : n \in 0..MaxListLen}

(***************************************************************************)
(* Callers of RNSystem::true_hit                                           *)
(***************************************************************************)
HitIdle == rn = None /\ hit_calls = <<>>
CritIdle == crit_atk = None /\ crit_def = None /\ crit_result = NoResult
RoundIdle ==
    /\ atk = None /\ def = None /\ atk_hp = None /\ def_hp = None
    /\ speed = None /\ pc = None /\ outcomes = <<>>
AddIdle == add_self = None /\ add_list = <<>> /\ add_result = <<>>

hit_vars == <<rn, hit_calls>>
crit_vars == <<crit_atk, crit_def, crit_result>>
round_vars == <<atk, def, atk_hp, def_hp, speed, pc, outcomes>>
add_vars == <<add_self, add_list, add_result>>

HitInit ==
    /\ rn \in RNSystem
    /\ hit_calls = <<>>
    /\ game = None /\ overflow_checks = FALSE
    /\ CritIdle /\ RoundIdle /\ AddIdle

\* a call rn.true_hit(lh); the call before it is remembered.  The caller
\* starts anywhere in 0..100 and then asks for the next listed value.
CallTrueHit(lh) ==
    /\ IF hit_calls = <<>> THEN TRUE
       ELSE lh = hit_calls[Len(hit_calls)].listed_hit + 1
    /\ hit_calls' = (IF hit_calls = <<>> THEN <<>>
                      ELSE <<hit_calls[Len(hit_calls)]>>)
                     \o <<[listed_hit |-> lh, result |-> true_hit(rn, lh)]>>
    /\ UNCHANGED <<rn, game, overflow_checks, crit_vars, round_vars, add_vars>>

HitNext == \E lh \in 0..100 : CallTrueHit(lh)

SpecHit == HitInit /\ [][HitNext]_vars

(***************************************************************************)
(* Callers of FEGame::crit_damage                                          *)
(***************************************************************************)
CritInit ==
    /\ game \in FEGame
    /\ overflow_checks \in BOOLEAN
    /\ crit_atk \in CritArgs /\ crit_def \in CritArgs
    /\ crit_result = NoResult
    /\ HitIdle /\ RoundIdle /\ AddIdle

CallCritDamage ==
    /\ crit_result = NoResult
    /\ crit_result' = crit_damage(game, crit_atk, crit_def, overflow_checks)
    /\ UNCHANGED <<game, overflow_checks, crit_atk, crit_def, hit_vars,
                   round_vars, add_vars>>

CritNext == CallCritDamage

SpecCrit == CritInit /\ [][CritNext]_vars

(***************************************************************************)
(* Callers of Outcome::add_into                                            *)
(***************************************************************************)
AddInit ==
    /\ add_self \in AddOutcomes
    /\ add_list \in AddLists
    /\ add_result = <<>>
    /\ game = None /\ overflow_checks = FALSE
    /\ HitIdle /\ CritIdle /\ RoundIdle

CallAddInto ==
    /\ add_result = <<>>
    /\ add_result' = <<add_into(add_self, add_list)>>
    /\ UNCHANGED <<add_self, add_list, game, overflow_checks, hit_vars,
                   crit_vars, round_vars>>

AddNext == CallAddInto

SpecAdd == AddInit /\ [][AddNext]_vars

(***************************************************************************)
(* possible_outcomes (simple_calc.rs), one step per strike                 *)
(***************************************************************************)
At(step, turn) == [step |-> step, turn |-> turn]

\* where control goes once the turn is over
AfterTurn(turn) ==
    CASE turn = 1 -> At("def", 2)
      [] turn = 2 -> At("match", 2)
      [] turn = 3 -> At("done", 3)

\* no product overflows on these inputs, so both builds run alike
Init ==
    /\ game \in RoundGames
    /\ overflow_checks = TRUE
    /\ atk \in CombatStats /\ def \in CombatStats
    /\ atk_hp \in HpValues /\ def_hp \in HpValues
    /\ speed \in SpeedDiff
    /\ outcomes = <<MkOutcome(One, atk_hp, def_hp)>>
    /\ pc = At("atk", 1)
    /\ HitIdle /\ CritIdle /\ AddIdle

Frame == UNCHANGED <<game, overflow_checks, atk, def, atk_hp, def_hp, speed,
                     hit_vars, crit_vars, add_vars>>

\* atk.possible_outcomes: let after_one = self.after_single_strike(..)
AtkStrike ==
    /\ pc.step = "atk"
    /\ LET r == after_single_strike(atk, game, outcomes, overflow_checks)
       IN  IF r.panic
           THEN pc' = At("panicked", pc.turn) /\ UNCHANGED outcomes
           ELSE /\ outcomes' = r.states
                /\ pc' = IF atk.is_brave THEN At("atk_again", pc.turn)
                         ELSE AfterTurn(pc.turn)
    /\ Frame

\* atk.possible_outcomes, is_brave: strike again
AtkStrikeAgain ==
    /\ pc.step = "atk_again"
    /\ LET r == after_single_strike(atk, game, outcomes, overflow_checks)
       IN  IF r.panic
           THEN pc' = At("panicked", pc.turn) /\ UNCHANGED outcomes
           ELSE outcomes' = r.states /\ pc' = AfterTurn(pc.turn)
    /\ Frame

\* def.possible_outcomes on the switched list; switched back unless the
\* defender strikes again first
DefStrike ==
    /\ pc.step = "def"
    /\ LET r == after_single_strike(def, game, switch_all(outcomes),
                                    overflow_checks)
       IN  IF r.panic
           THEN pc' = At("panicked", pc.turn) /\ UNCHANGED outcomes
           ELSE IF def.is_brave
                THEN outcomes' = r.states /\ pc' = At("def_again", pc.turn)
                ELSE outcomes' = switch_all(r.states) /\ pc' = AfterTurn(pc.turn)
    /\ Frame

\* def.possible_outcomes, is_brave: strike again, then switch back
DefStrikeAgain ==
    /\ pc.step = "def_again"
    /\ LET r == after_single_strike(def, game, outcomes, overflow_checks)
       IN  IF r.panic
           THEN pc' = At("panicked", pc.turn) /\ UNCHANGED outcomes
           ELSE outcomes' = switch_all(r.states) /\ pc' = AfterTurn(pc.turn)
    /\ Frame

\* match speed { .. }
MatchEven ==
    /\ pc.step = "match" /\ speed = "Even"
    /\ pc' = At("done", 2) /\ UNCHANGED outcomes /\ Frame
MatchAtkDoubles ==
    /\ pc.step = "match" /\ speed = "AtkDoubles"
    /\ pc' = At("atk", 3) /\ UNCHANGED outcomes /\ Frame
\* the DefDoubles arm running the attacker's turn
MatchDefDoublesRunsAtk ==
    /\ pc.step = "match" /\ speed = "DefDoubles"
    /\ pc' = At("atk", 3) /\ UNCHANGED outcomes /\ Frame

MatchDefDoubles ==
    /\ pc.step = "match" /\ speed = "DefDoubles"
    /\ pc' = At("def", 3) /\ UNCHANGED outcomes /\ Frame

Next ==
    \/ AtkStrike \/ AtkStrikeAgain \/ DefStrike \/ DefStrikeAgain
    \/ MatchEven \/ MatchAtkDoubles \/ MatchDefDoubles

Spec == Init /\ [][Next]_vars

\* the same round on inputs at the edges of u32, in either build
WideInit ==
    /\ game = "FE4"
    /\ overflow_checks \in BOOLEAN
    /\ atk \in WideStats /\ def \in WideStats
    /\ atk_hp \in WideHp /\ def_hp \in WideHp
    /\ speed \in SpeedDiff
    /\ outcomes = <<MkOutcome(One, atk_hp, def_hp)>>
    /\ pc = At("atk", 1)
    /\ HitIdle /\ CritIdle /\ AddIdle

SpecWide == WideInit /\ [][Next]_vars

(***************************************************************************)
(* Properties of a round                                                   *)
(***************************************************************************)
RECURSIVE SumProb(_)
SumProb(os) == IF os = <<>> THEN Zero ELSE DAdd(os[1].prob, SumProb(Tail(os)))

\* the probability the list os puts on the pair (a, d)
RECURSIVE Mass(_, _, _)
Mass(os, a, d) ==
    IF os = <<>> THEN Zero
    ELSE DAdd(IF os[1].atk_hp = a /\ os[1].def_hp = d THEN os[1].prob ELSE Zero,
              Mass(Tail(os), a, d))

Canonical(os) ==
    /\ \A i, j \in 1..Len(os) : i # j => ~SameHp(os[i], os[j])
    /\ \A i \in 1..Len(os) : os[i].prob # Zero

AtkSteps == {"atk", "atk_again"}
DefSteps == {"def", "def_again"}
StrikeSteps == AtkSteps \cup DefSteps

\* the list held at position p, with atk_hp the attacker's HP (between the
\* two strikes of a defender's brave turn the list is held switched)
Unswitched(p, os) == IF p.step = "def_again" THEN switch_all(os) ELSE os

\* C1: the probabilities of the outcome list sum to exactly 1 at the seed,
\* after every strike application and in the returned list
C1_SumIsOne == SumProb(outcomes) = One

C1_Witness ==
    /\ pc.step = "done" /\ speed = "DefDoubles"
    /\ atk.is_brave /\ def.is_brave
    /\ atk.hit = 70 /\ atk.crit = 50 /\ def.hit = 70 /\ def.crit = 50
    /\ Len(outcomes) >= 4
    /\ SumProb(outcomes) = One

\* C2: every list of a round is canonical: no two entries share an
\* (atk_hp, def_hp) pair and no entry has probability exactly 0
C2_Canonical == Canonical(outcomes)

\* a brave attacker with hit 70, crit 0: nine raw branches, five of them of
\* probability 0, the other four on three pairs
C2_Witness ==
    /\ pc = At("def", 2)
    /\ atk.is_brave /\ atk.hit = 70 /\ atk.crit = 0
    /\ def_hp = U32(2)
    /\ Len(outcomes) = 3
    /\ Canonical(outcomes)

TurnOrder ==
    CASE speed = "Even" -> <<"atk", "def">>
      [] speed = "AtkDoubles" -> <<"atk", "def", "atk">>
      [] speed = "DefDoubles" -> <<"atk", "def", "def">>

RECURSIVE StrikeOrder(_)
StrikeOrder(turns) ==
    IF turns = <<>> THEN <<>>
    ELSE LET side == turns[1]
             brave == IF side = "atk" THEN atk.is_brave ELSE def.is_brave
         IN  (IF brave THEN <<side, side>> ELSE <<side>>)
                 \o StrikeOrder(Tail(turns))

\* one single strike by a side on a list in the attacker's frame
SingleStrike(side, os) ==
    IF side = "atk"
    THEN after_single_strike(atk, game, os, overflow_checks).states
    ELSE switch_all(after_single_strike(def, game, switch_all(os),
                                        overflow_checks).states)

RECURSIVE FoldStrikes(_, _)
FoldStrikes(order, os) ==
    IF order = <<>> THEN os
    ELSE FoldStrikes(Tail(order), SingleStrike(order[1], os))

AllHp == {U32(k) : k \in 0..MaxHp}

Plain(stats) == stats.hit = 100 /\ stats.crit = 0 /\ ~stats.is_brave

\* the HP after the strikes A, B, A when every strike lands (dead units
\* do not strike)
TrajectoryABA ==
    LET d1 == saturating_sub(def_hp, atk.dmg)
        a1 == IF d1 = U32Zero THEN atk_hp ELSE saturating_sub(atk_hp, def.dmg)
        d2 == IF a1 = U32Zero THEN d1 ELSE saturating_sub(d1, atk.dmg)
    IN  MkOutcome(One, a1, d2)

\* C3: the returned mapping is the fold of single strikes in the order
\* A, B (Even), A, B, A (AtkDoubles), A, B, B (DefDoubles), each turn being
\* two consecutive strikes for a brave side; with hit 100, crit 0 and no
\* brave on both sides AtkDoubles returns the one outcome of A, B, A
C3_TurnOrder ==
    pc.step = "done" =>
        /\ LET ref == FoldStrikes(StrikeOrder(TurnOrder),
                                  <<MkOutcome(One, atk_hp, def_hp)>>)
           IN  \A a, d \in AllHp : Mass(outcomes, a, d) = Mass(ref, a, d)
        /\ (speed = "AtkDoubles" /\ Plain(atk) /\ Plain(def))
               => outcomes = <<TrajectoryABA>>

C3_Witness ==
    /\ pc.step = "done" /\ speed = "DefDoubles"
    /\ atk.is_brave /\ ~def.is_brave
    /\ atk.hit = 70 /\ def.hit = 70 /\ atk.crit = 0 /\ def.crit = 50
    /\ atk_hp = U32(2) /\ def_hp = U32(2)
    /\ Len(outcomes) >= 5

\* the HP of the side that strikes at position p, in an unswitched outcome
StrikerHp(p, o) == IF p.step \in AtkSteps THEN o.atk_hp ELSE o.def_hp

\* C4: a strike carries every outcome whose striking side has HP 0 forward
\* unchanged (same pair, same probability, not removed), so a dead side
\* never lowers its opponent's HP
C4_DeadStrikerNoOp ==
    [][pc.step \in StrikeSteps =>
         LET before == Unswitched(pc, outcomes)
             after == Unswitched(pc', outcomes')
         IN  \A i \in 1..Len(before) :
                StrikerHp(pc, before[i]) = U32Zero
                    => /\ \E j \in 1..Len(after) : after[j] = before[i]
                       /\ Mass(after, before[i].atk_hp, before[i].def_hp)
                              = before[i].prob]_vars

\* the attacker was killed by the defender's turn and then ran its second
\* turn of an AtkDoubles round
C4_Witness ==
    /\ pc.step = "done" /\ speed = "AtkDoubles"
    /\ atk.hit = 100 /\ def.hit = 100
    /\ \E i \in 1..Len(outcomes) :
          outcomes[i].atk_hp = U32Zero /\ outcomes[i].def_hp # U32Zero

\* C10: with both starting HP positive, no outcome of any list of the round
\* has both HP at 0, and none has an HP above its starting value
C10_NoDoubleKo ==
    (atk_hp # U32Zero /\ def_hp # U32Zero) =>
        \A i \in 1..Len(outcomes) :
            LET o == Unswitched(pc, outcomes)[i]
            IN  /\ ~(o.atk_hp = U32Zero /\ o.def_hp = U32Zero)
                /\ ~U32Lt(atk_hp, o.atk_hp)
                /\ ~U32Lt(def_hp, o.def_hp)

\* both kills are possible at the end of the round, never together
C10_Witness ==
    /\ pc.step = "done"
    /\ atk_hp # U32Zero /\ def_hp # U32Zero
    /\ \E i \in 1..Len(outcomes) : outcomes[i].atk_hp = U32Zero
    /\ \E i \in 1..Len(outcomes) : outcomes[i].def_hp = U32Zero

(***************************************************************************)
(* Properties at the full width of u32                                     *)
(***************************************************************************)
\* a u32 as an unbounded natural
Big(u) == NTrim(NAdd(NMul(NOfInt(u[1]), NOfInt(Half)), NOfInt(u[2]), 0))
BigTimes(k, u) == NTrim(NMul(NOfInt(k), Big(u)))
BigSum(x, y) == NTrim(NAdd(x, y, 0))

\* t = max(0, hp - k * dmg) over the integers
IsMax0Minus(t, hp, k, dmg) ==
    IF NCmp(Big(hp), BigTimes(k, dmg)) <= 0 THEN t = U32Zero
    ELSE BigSum(Big(t), BigTimes(k, dmg)) = Big(hp)

\* the lists of a strike step with atk_hp the striker's HP
StrikerIn == IF pc.step = "def" THEN switch_all(outcomes) ELSE outcomes
StrikerOut ==
    IF pc.step \in DefSteps /\ pc'.step # "def_again"
    THEN switch_all(outcomes') ELSE outcomes'
StrikerStats == IF pc.step \in AtkSteps THEN atk ELSE def

\* C5: a strike never aborts; for a live striker the normal-hit branch ends
\* on target HP max(0, hp - dmg) and the critical branch on
\* max(0, hp - 3 * dmg), the striker's HP unchanged, and every entry of the
\* new list is one of these or an entry carried forward; a brave attacker
\* with hit 100, crit 0, dmg 5 leaves def_hp 8 at 0 with probability 1
C5_DamageFloorsAtZero ==
    [][pc.step \in StrikeSteps =>
         /\ pc'.step # "panicked"
         /\ \A i \in 1..Len(StrikerIn) :
               LET s == StrikerIn[i]
                   lands(k) == \E j \in 1..Len(StrikerOut) :
                                  /\ StrikerOut[j].atk_hp = s.atk_hp
                                  /\ IsMax0Minus(StrikerOut[j].def_hp,
                                                 s.def_hp, k, StrikerStats.dmg)
               IN  s.atk_hp # U32Zero =>
                     /\ (StrikerStats.hit > 0 /\ StrikerStats.crit < 100)
                            => lands(1)
                     /\ (StrikerStats.hit > 0 /\ StrikerStats.crit > 0)
                            => lands(3)
         /\ \A j \in 1..Len(StrikerOut) :
               \E i \in 1..Len(StrikerIn) :
                  /\ StrikerOut[j].atk_hp = StrikerIn[i].atk_hp
                  /\ \E k \in {0, 1, 3} :
                        IsMax0Minus(StrikerOut[j].def_hp, StrikerIn[i].def_hp,
                                    k, StrikerStats.dmg)
         /\ (/\ pc = At("atk_again", 1) /\ def_hp = U32(8)
             /\ atk.dmg = U32(5) /\ atk.hit = 100 /\ atk.crit = 0)
                => outcomes' = <<MkOutcome(One, atk_hp, U32Zero)>>]_vars

\* C8: crit_damage returns, without abort or wraparound, 2 * atk - def for
\* FE4 and FE5 and 3 * (atk - def) for every other game
C8_CritDamageExact ==
    crit_result.status # "none" =>
        /\ crit_result.status = "ok"
        /\ IF game \in {"FE4", "FE5"}
           THEN BigSum(Big(crit_result.value), Big(crit_def))
                    = BigTimes(2, crit_atk)
           ELSE BigSum(Big(crit_result.value), BigTimes(3, crit_def))
                    = BigTimes(3, crit_atk)

(***************************************************************************)
(* Properties of true_hit                                                  *)
(***************************************************************************)
\* C6: true_hit lies in [0, 1] and does not decrease from a listed hit to
\* the next one (so it is non-decreasing over 0..100); OneRN is exactly 0
\* at 0 and 1 at 100; FatesRN is listed / 100, as OneRN, below 50
C6_TrueHitMonotone ==
    /\ \A k \in 1..Len(hit_calls) :
          LET c == hit_calls[k]
          IN  /\ DLe(Zero, c.result) /\ DLe(c.result, One)
              /\ (rn = "OneRN" /\ c.listed_hit = 0) => c.result = Zero
              /\ (rn = "OneRN" /\ c.listed_hit = 100) => c.result = One
              /\ (rn = "FatesRN" /\ c.listed_hit < 50)
                     => DMul(c.result, DInt(100)) = DInt(c.listed_hit)
    /\ Len(hit_calls) = 2 =>
          /\ hit_calls[1].listed_hit < hit_calls[2].listed_hit
          /\ DLe(hit_calls[1].result, hit_calls[2].result)

\* the step of FatesRN from its linear part to its formula
C6_Witness ==
    /\ rn = "FatesRN" /\ Len(hit_calls) = 2
    /\ hit_calls[1].listed_hit = 49 /\ hit_calls[2].listed_hit = 50
    /\ DLe(hit_calls[1].result, hit_calls[2].result)

PairsBelow(lh) == {p \in (0..99) \X (0..99) : p[1] + p[2] < 2 * lh}

\* C7: TwoRN.true_hit(listed) is the number of pairs (i, j) of 0..99 with
\* i + j < 2 * listed, over 10000; listed 70 gives 8230 / 10000
C7_TwoRNCountsPairs ==
    rn = "TwoRN" =>
        \A k \in 1..Len(hit_calls) :
            LET c == hit_calls[k]
            IN  /\ DMul(c.result, DInt(10000))
                       = DInt(Cardinality(PairsBelow(c.listed_hit)))
                /\ c.listed_hit = 70 => c.result = [n |-> <<8230>>, e |-> 1]

C7_Witness ==
    /\ rn = "TwoRN"
    /\ \E k \in 1..Len(hit_calls) :
          /\ hit_calls[k].listed_hit = 70
          /\ hit_calls[k].result = [n |-> <<8230>>, e |-> 1]

(***************************************************************************)
(* Properties of add_into                                                  *)
(***************************************************************************)
Others(o, os) == SelectSeq(os, LAMBDA x : ~SameHp(o, x))
Matching(o, os) == SelectSeq(os, LAMBDA x : SameHp(o, x))

AddConserves(o, os, res) ==
    /\ SumProb(res) = DAdd(SumProb(os), o.prob)
    /\ Len(Matching(o, res)) = 1
    /\ Matching(o, res)[1].prob = DAdd(SumProb(Matching(o, os)), o.prob)
    /\ Others(o, res) = Others(o, os)

\* C9 as stated: for any outcome o and any list, canonical or not,
\* add_into conserves the total probability, leaves o's mass on exactly one
\* entry with o's pair, and keeps the other entries unchanged and in order
C9_AddIntoConservesAnyList ==
    add_result # <<>> => AddConserves(add_self, add_list, add_result[1])

\* C9 amended: the same for every list with at most one entry on o's pair
C9_AddIntoConserves ==
    (add_result # <<>> /\ Len(Matching(add_self, add_list)) <= 1)
        => AddConserves(add_self, add_list, add_result[1])

C9_Witness ==
    /\ add_result # <<>>
    /\ Len(add_list) = 3
    /\ Len(Matching(add_self, add_list)) = 1
    /\ add_self.prob # Zero
    /\ Len(add_result[1]) = 3

====
